---- MODULE Spec2Model ----
(***************************************************************************)
(* CustomScheduler (pkg/plugins/scheduler.go): gang admission in PreFilter, *)
(* memory-headroom scoring in Score, linear rescale in NormalizeScore.      *)
(***************************************************************************)
EXTENDS Integers, Sequences, FiniteSets, TLC

\* bounds of the model
MaxLen == 2       \* longest minAvailable label value, in characters
MaxPods == 3      \* pods in the informer's store
NumNodes == 3     \* candidate nodes of one scheduling cycle

(***************************************************************************)
(* int64.  TLC's integers are 32 bits wide, so a Go int64 is held as its    *)
(* two's-complement bit pattern: NumLimbs limbs of LimbBase, least          *)
(* significant first.  +, - and * drop the carry out of the top limb, which *)
(* is exactly Go's wrap-around; / truncates toward zero and panics on a     *)
(* zero divisor.                                                            *)
(***************************************************************************)
LimbBase == 65536
NumLimbs == 4
HalfBase == 256

Zero64 == [i \in 1 .. NumLimbs |-> 0]
One64 == [i \in 1 .. NumLimbs |-> IF i = 1 THEN 1 ELSE 0]
MaxInt64 == [i \in 1 .. NumLimbs |-> IF i = NumLimbs THEN (LimbBase \div 2) - 1 ELSE LimbBase - 1]
MinInt64 == [i \in 1 .. NumLimbs |-> IF i = NumLimbs THEN LimbBase \div 2 ELSE 0]

RECURSIVE NatLimbs(_, _)
NatLimbs(n, k) ==
    IF k = 0 THEN <<>> ELSE <<n % LimbBase>> \o NatLimbs(n \div LimbBase, k - 1)

RECURSIVE AddLimbs(_, _, _)
AddLimbs(a, b, c) ==
    IF a = <<>> THEN <<>>
    ELSE LET s == Head(a) + Head(b) + c
         IN  <<s % LimbBase>> \o AddLimbs(Tail(a), Tail(b), s \div LimbBase)

RECURSIVE CarryOut(_, _, _)
CarryOut(a, b, c) ==
    IF a = <<>> THEN c
    ELSE CarryOut(Tail(a), Tail(b), (Head(a) + Head(b) + c) \div LimbBase)

Not64(a) == [i \in 1 .. Len(a) |-> (LimbBase - 1) - a[i]]
Add64(a, b) == AddLimbs(a, b, 0)
Sub64(a, b) == AddLimbs(a, Not64(b), 1)
Neg64(a) == AddLimbs(Zero64, Not64(a), 1)
IsNeg64(a) == a[NumLimbs] >= LimbBase \div 2

\* unsigned a < b: a - b borrows
LtU64(a, b) == CarryOut(a, Not64(b), 1) = 0
Lt64(a, b) == IF IsNeg64(a) # IsNeg64(b) THEN IsNeg64(a) ELSE LtU64(a, b)
Le64(a, b) == ~Lt64(b, a)

\* the int64 of a small integer literal
I64(n) == IF n >= 0 THEN NatLimbs(n, NumLimbs) ELSE Neg64(NatLimbs(-n, NumLimbs))

\* a * k for one half-limb k < HalfBase (limb products stay below 2^31)
RECURSIVE MulLimb(_, _, _)
MulLimb(a, k, c) ==
    IF a = <<>> THEN <<>>
    ELSE LET p == Head(a) * k + c
         IN  <<p % LimbBase>> \o MulLimb(Tail(a), k, p \div LimbBase)

RECURSIVE MulLimbs(_, _)
MulLimbs(a, b) ==
    IF b = <<>> THEN Zero64
    ELSE LET rest == MulLimbs(a, Tail(b))
             lo == MulLimb(a, Head(b) % HalfBase, 0)
             hi == MulLimb(MulLimb(a, Head(b) \div HalfBase, 0), HalfBase, 0)
         IN  AddLimbs(AddLimbs(lo, hi, 0), <<0>> \o SubSeq(rest, 1, NumLimbs - 1), 0)

Mul64(a, b) == MulLimbs(a, b)

\* unsigned quotient and remainder, d # 0, bit by bit:
\* n = (2d)*q2 + r2  gives  q = 2*q2 + [r2 >= d]
RECURSIVE DivModBits(_, _)
DivModBits(n, d) ==
    IF LtU64(n, d) THEN [q |-> Zero64, r |-> n]
    ELSE LET half == IF IsNeg64(d) THEN [q |-> Zero64, r |-> n]
                     ELSE DivModBits(n, Add64(d, d))
             q2 == Add64(half.q, half.q)
         IN  IF LtU64(half.r, d) THEN [q |-> q2, r |-> half.r]
             ELSE [q |-> Add64(q2, One64), r |-> Sub64(half.r, d)]

\* the same limb by limb: n = (LimbBase*d)*q1 + r1  gives  q = LimbBase*q1 + r1 / d
ShiftLimb(a) == <<0>> \o SubSeq(a, 1, NumLimbs - 1)
RECURSIVE DivModU64(_, _)
DivModU64(n, d) ==
    IF LtU64(n, d) THEN [q |-> Zero64, r |-> n]
    ELSE LET high == IF d[NumLimbs] # 0 THEN [q |-> Zero64, r |-> n]
                     ELSE DivModU64(n, ShiftLimb(d))
             low == DivModBits(high.r, d)
         IN  [q |-> Add64(ShiftLimb(high.q), low.q), r |-> low.r]

Abs64(a) == IF IsNeg64(a) THEN Neg64(a) ELSE a
\* Go's x / y on int64 for y # 0: truncated toward zero, MinInt64 / -1 wraps
Div64(x, y) ==
    LET q == DivModU64(Abs64(x), Abs64(y)).q
    IN  IF IsNeg64(x) # IsNeg64(y) THEN Neg64(q) ELSE q


(***************************************************************************)
(* Constants of the plugin and of the scheduling framework.                 *)
(***************************************************************************)
groupNameLabel == "podGroup"
minAvailableLabel == "minAvailable"
leastMode == "Least"
mostMode == "Most"
MaxNodeScore == I64(100)
MinNodeScore == I64(0)
LeastDividend == Mul64(I64(100000), I64(1000000))    \* the literal 100000000000

Success == "Success"
Error == "Error"
Unschedulable == "Unschedulable"
Panic == "Panic"                 \* run-time panic: integer divide by zero
Pending == "Pending"             \* the call has not been made

(***************************************************************************)
(* New: the mode is Least without arguments, otherwise the "mode" argument, *)
(* which must be Least or Most.                                             *)
(***************************************************************************)
NoArgs == "<nil>"
PluginArgs == {NoArgs, leastMode, mostMode, "", "Balanced"}
New(obj) ==
    LET mode == IF obj # NoArgs THEN obj ELSE leastMode
    IN  IF obj # NoArgs /\ mode # leastMode /\ mode # mostMode
        THEN [err |-> TRUE, scoreMode |-> ""]
        ELSE [err |-> FALSE, scoreMode |-> mode]

(***************************************************************************)
(* Labels.  A label map is a function on the keys it holds; a minAvailable  *)
(* value is a sequence of characters, a podGroup value a string.            *)
(***************************************************************************)
Digits == <<"0", "1", "2", "3", "4", "5", "6", "7", "8", "9">>
IsDigit(ch) == \E i \in 1 .. Len(Digits) : Digits[i] = ch
DigitValue(ch) == (CHOOSE i \in 1 .. Len(Digits) : Digits[i] = ch) - 1

Chars == {"-", "+", "0", "2", "a"}
LabelValues == UNION {[1 .. n -> Chars] : n \in 0 .. MaxLen}
GroupValues == {"A", "B"}

\* podLabels[key] of a Go map: the zero value when the key is absent
LabelOr(podLabels, key, zero) ==
    IF key \in DOMAIN podLabels THEN podLabels[key] ELSE zero

LabelMaps(groups, values) ==
    {<<>>}
    \cup {(groupNameLabel :> g) : g \in groups}
    \cup {(minAvailableLabel :> v) : v \in values}
    \cup {(groupNameLabel :> g) @@ (minAvailableLabel :> v) : g \in groups, v \in values}

\* the pods PreFilter is called with
PodLabels == LabelMaps(GroupValues, LabelValues)
\* the pods the informer's store holds
StoreLabels ==
    {<<>>} \cup {(groupNameLabel :> g) @@ (minAvailableLabel :> v) :
                    g \in GroupValues, v \in {<<"0">>, <<"2">>}}
Stores == [1 .. MaxPods -> StoreLabels]

RECURSIVE ParseDigits(_, _)
ParseDigits(s, n) ==
    IF s = <<>> THEN [err |-> FALSE, n |-> n]
    ELSE IF ~IsDigit(Head(s)) THEN [err |-> TRUE, n |-> 0]
    ELSE ParseDigits(Tail(s), n * 10 + DigitValue(Head(s)))

\* strconv.Atoi on a value too short to leave the range of int
Atoi(s) ==
    IF s = <<>> THEN [err |-> TRUE, n |-> 0]
    ELSE LET signed == Head(s) \in {"-", "+"}
             body == IF signed THEN Tail(s) ELSE s
             r == ParseDigits(body, 0)
         IN  IF body = <<>> \/ r.err THEN [err |-> TRUE, n |-> 0]
             ELSE IF Head(s) = "-" THEN [err |-> FALSE, n |-> 0 - r.n]
             ELSE r

\* labels.SelectorFromSet({key: value}).Matches(podLabels)
Matches(key, value, podLabels) ==
    key \in DOMAIN podLabels /\ podLabels[key] = value

\* Lister().List(selector) on a store: the matching pods, or an error
RECURSIVE SelectPods(_, _, _)
SelectPods(store, key, value) ==
    IF store = <<>> THEN <<>>
    ELSE (IF Matches(key, value, Head(store)) THEN <<Head(store)>> ELSE <<>>)
         \o SelectPods(Tail(store), key, value)

List(store, fails, key, value) ==
    IF fails THEN [err |-> TRUE, pods |-> <<>>]
    ELSE [err |-> FALSE, pods |-> SelectPods(store, key, value)]

(***************************************************************************)
(* PreFilter: what one call returns, with what it read on the way.          *)
(***************************************************************************)
NoAdmit ==
    [pod |-> <<>>, listed |-> FALSE, listErr |-> FALSE, pods |-> <<>>,
     code |-> Pending, reason |-> <<>>]

PreFilterThreshold(pod) == Atoi(LabelOr(pod, minAvailableLabel, <<>>))

\* variant: the comparison admits only a group larger than the threshold
PreFilterAdmits_Strict(have, need) == have > need

PreFilterAdmits(have, need) == ~(have < need)

PreFilterCall(pod, store, listFails) ==
    LET groupLabelValue == LabelOr(pod, groupNameLabel, "")
        minAvailableValue == LabelOr(pod, minAvailableLabel, <<>>)
        parsed == PreFilterThreshold(pod)
        minAvailable == parsed.n
        listing == List(store, listFails, groupNameLabel, groupLabelValue)
        pods == listing.pods
    IN  IF parsed.err
        THEN [NoAdmit EXCEPT !.pod = pod, !.code = Error,
                             !.reason = <<"Invalid minAvailable value">>]
        ELSE IF listing.err
        THEN [NoAdmit EXCEPT !.pod = pod, !.listed = TRUE, !.listErr = TRUE,
                             !.code = Error, !.reason = <<"Failed to list pods">>]
        ELSE IF ~PreFilterAdmits(Len(pods), minAvailable)
        THEN [NoAdmit EXCEPT !.pod = pod, !.listed = TRUE, !.pods = pods,
                             !.code = Unschedulable,
                             !.reason = <<groupLabelValue, Len(pods), minAvailable>>]
        ELSE [NoAdmit EXCEPT !.pod = pod, !.listed = TRUE, !.pods = pods,
                             !.code = Success]

(***************************************************************************)
(* Score: what one call returns for the node info the snapshot holds.       *)
(***************************************************************************)
NotFound == [found |-> FALSE, Allocatable |-> Zero64, Requested |-> Zero64]
NodeInfo(allocatable, requested) ==
    [found |-> TRUE, Allocatable |-> allocatable, Requested |-> requested]

GiB == I64(1073741824)
\* what the snapshot may hold for a node: headroom 10, 20, 30, 1000000, 0,
\* -10 (more requested than allocatable), 10^17 and -(2^63 - 1)
NodeInfos ==
    {NodeInfo(I64(10), I64(0)),
     NodeInfo(I64(30), I64(10)),
     NodeInfo(Add64(GiB, I64(30)), GiB),
     NodeInfo(Add64(GiB, I64(1000000)), GiB),
     NodeInfo(GiB, GiB),
     NodeInfo(GiB, Add64(GiB, I64(10))),
     NodeInfo(Mul64(I64(100000000), I64(1000000000)), I64(0)),
     NodeInfo(I64(0), MaxInt64)}
Lookups == NodeInfos \cup {NotFound}

NoScore ==
    [info |-> NotFound, headroom |-> Zero64, score |-> Zero64, code |-> Pending]

\* variant: dividend and divisor exchanged
LeastScore_Swapped(allocatableMemory) ==
    [score |-> Div64(allocatableMemory, LeastDividend), code |-> Success]

LeastScore(allocatableMemory) ==
    IF allocatableMemory = Zero64
    THEN [score |-> Zero64, code |-> Panic]
    ELSE [score |-> Div64(LeastDividend, allocatableMemory), code |-> Success]

\* variant: the used memory instead of the free memory
MostScore_Negated(allocatableMemory) ==
    [score |-> Neg64(allocatableMemory), code |-> Success]

MostScore(allocatableMemory) == [score |-> allocatableMemory, code |-> Success]

\* variant: a failed lookup is logged and scored as an empty node
ScoreCall_LookupIgnored(mode, nodeInfo) ==
    LET allocatableMemory == Sub64(nodeInfo.Allocatable, nodeInfo.Requested)
        r == IF mode = leastMode /\ nodeInfo.found THEN LeastScore(allocatableMemory)
             ELSE MostScore(allocatableMemory)
    IN  [info |-> nodeInfo, headroom |-> allocatableMemory,
         score |-> r.score, code |-> r.code]

ScoreCall(mode, nodeInfo) ==
    IF ~nodeInfo.found
    THEN [NoScore EXCEPT !.code = Error]
    ELSE LET allocatableMemory == Sub64(nodeInfo.Allocatable, nodeInfo.Requested)
             r == IF mode = leastMode THEN LeastScore(allocatableMemory)
                  ELSE MostScore(allocatableMemory)
         IN  [info |-> nodeInfo, headroom |-> allocatableMemory,
              score |-> r.score, code |-> r.code]

(***************************************************************************)
(* NormalizeScore on a NodeScoreList, a sequence of [Name, Score].          *)
(***************************************************************************)
RECURSIVE MinOf(_, _)
MinOf(scores, minScore) ==
    IF scores = <<>> THEN minScore
    ELSE MinOf(Tail(scores),
               IF Lt64(Head(scores).Score, minScore) THEN Head(scores).Score ELSE minScore)

RECURSIVE MaxOf(_, _)
MaxOf(scores, maxScore) ==
    IF scores = <<>> THEN maxScore
    ELSE MaxOf(Tail(scores),
               IF Lt64(maxScore, Head(scores).Score) THEN Head(scores).Score ELSE maxScore)

Rescale(score, minScore, scoreRange, frameRange) ==
    Add64(Div64(Mul64(Sub64(score, minScore), frameRange), scoreRange), MinNodeScore)

\* variant: the all-equal list is set to the low end of the range
NormalizeScoreCall_DegenerateToMin(scores) ==
    LET minScore == MinOf(scores, MaxInt64)
        maxScore == MaxOf(scores, MinInt64)
        scoreRange == Sub64(maxScore, minScore)
        frameRange == Sub64(MaxNodeScore, MinNodeScore)
    IN  IF minScore = maxScore
        THEN [i \in 1 .. Len(scores) |-> [scores[i] EXCEPT !.Score = MinNodeScore]]
        ELSE [i \in 1 .. Len(scores) |->
                [scores[i] EXCEPT !.Score = Rescale(@, minScore, scoreRange, frameRange)]]

NormalizeScoreCall(scores) ==
    LET minScore == MinOf(scores, MaxInt64)
        maxScore == MaxOf(scores, MinInt64)
        scoreRange == Sub64(maxScore, minScore)
        frameRange == Sub64(MaxNodeScore, MinNodeScore)
    IN  IF minScore = maxScore
        THEN [i \in 1 .. Len(scores) |-> [scores[i] EXCEPT !.Score = MaxNodeScore]]
        ELSE [i \in 1 .. Len(scores) |->
                [scores[i] EXCEPT !.Score = Rescale(@, minScore, scoreRange, frameRange)]]

(***************************************************************************)
(* One scheduling cycle after another: PreFilter on a pod; when it admits   *)
(* the pod, Score on every node, in any order; then NormalizeScore on the   *)
(* list of the nodes that were scored.                                      *)
(***************************************************************************)
VARIABLES
    scoreMode,     \* CustomScheduler.scoreMode, set by New
    phase,         \* the extension point the framework is at
    admit,         \* what the last PreFilter call returned and read
    results,       \* per node, what Score returned and read in this cycle
    scores,        \* the NodeScoreList after NormalizeScore
    normalized     \* the status NormalizeScore returned

vars == <<scoreMode, phase, admit, results, scores, normalized>>

Nodes == 1 .. NumNodes

\* the NodeScoreList the framework hands to NormalizeScore
RECURSIVE ScoreList(_, _)
ScoreList(res, n) ==
    IF n > NumNodes THEN <<>>
    ELSE (IF res[n].code = Success THEN <<[Name |-> n, Score |-> res[n].score]>> ELSE <<>>)
         \o ScoreList(res, n + 1)

Init ==
    /\ \E obj \in PluginArgs : ~New(obj).err /\ scoreMode = New(obj).scoreMode
    /\ phase = "PreFilter"
    /\ admit = NoAdmit
    /\ results = [n \in Nodes |-> NoScore]
    /\ scores = <<>>
    /\ normalized = Pending

PreFilter ==
    /\ phase = "PreFilter"
    /\ \E pod \in PodLabels, store \in Stores, listFails \in BOOLEAN :
          admit' = PreFilterCall(pod, store, listFails)
    /\ phase' = "PreFiltered"
    /\ UNCHANGED <<scoreMode, results, scores, normalized>>

\* the framework goes on to scoring once PreFilter has admitted the pod
RunScorePlugins ==
    /\ phase = "PreFiltered"
    /\ admit.code = Success
    /\ phase' = "Score"
    /\ admit' = NoAdmit
    /\ UNCHANGED <<scoreMode, results, scores, normalized>>

Score ==
    /\ phase = "Score"
    /\ \E nodeName \in Nodes, nodeInfo \in Lookups :
          /\ results[nodeName].code = Pending
          /\ LET r == ScoreCall(scoreMode, nodeInfo)
             IN  /\ results' = [results EXCEPT ![nodeName] = r]
                 /\ phase' = IF r.code = Panic THEN "Crashed" ELSE "Score"
    /\ UNCHANGED <<scoreMode, admit, scores, normalized>>

NormalizeScore ==
    /\ phase = "Score"
    /\ \A n \in Nodes : results[n].code # Pending
    /\ scores' = NormalizeScoreCall(ScoreList(results, 1))
    /\ normalized' = Success
    /\ phase' = "Normalized"
    /\ UNCHANGED <<scoreMode, admit, results>>

\* the cycle is over: the pod was not admitted, or its nodes are ranked
EndCycle ==
    /\ \/ phase = "PreFiltered" /\ admit.code # Success
       \/ phase = "Normalized"
    /\ phase' = "PreFilter"
    /\ admit' = NoAdmit
    /\ results' = [n \in Nodes |-> NoScore]
    /\ scores' = <<>>
    /\ normalized' = Pending
    /\ UNCHANGED scoreMode

Next ==
    \/ PreFilter
    \/ RunScorePlugins
    \/ Score
    \/ NormalizeScore
    \/ EndCycle

Spec == Init /\ [][Next]_vars

(***************************************************************************)
(* Properties.                                                              *)
(***************************************************************************)
Raw == ScoreList(results, 1)
Called(n) == results[n].code # Pending
Found(n) == Called(n) /\ results[n].info.found
Headroom(n) == Sub64(results[n].info.Allocatable, results[n].info.Requested)
Scored(n) == Found(n) /\ results[n].code = Success
AdmitLabel == LabelOr(admit.pod, minAvailableLabel, <<>>)
AdmitGroup == LabelOr(admit.pod, groupNameLabel, "")
InRange(score) == Le64(MinNodeScore, score) /\ Le64(score, MaxNodeScore)
Uniform(list) == \A i, j \in 1 .. Len(list) : list[i].Score = list[j].Score
IsMin(list, i) == \A j \in 1 .. Len(list) : Le64(list[i].Score, list[j].Score)
IsMax(list, i) == \A j \in 1 .. Len(list) : Le64(list[j].Score, list[i].Score)

\* C1: when the pod's minAvailable parses to m and the listing returns g pods of
\* the pod's group, PreFilter returns Unschedulable iff g < m and Success iff
\* g >= m, with m read from the pod under evaluation
C1_AdmitIffGroupReachesThreshold ==
    (admit.code # Pending /\ ~Atoi(AdmitLabel).err /\ ~admit.listErr) =>
        LET m == Atoi(AdmitLabel).n
            g == Len(admit.pods)
        IN  /\ \A i \in 1 .. g : Matches(groupNameLabel, AdmitGroup, admit.pods[i])
            /\ (admit.code = Unschedulable) <=> (g < m)
            /\ (admit.code = Success) <=> (g >= m)
            /\ admit.code = Unschedulable => admit.reason = <<AdmitGroup, g, m>>

\* a pod with threshold 2 is refused in a group of one whose other member
\* declares threshold 0
C1_Witness ==
    /\ admit.code = Unschedulable
    /\ Atoi(AdmitLabel).n = 2
    /\ Len(admit.pods) = 1
    /\ Atoi(admit.pods[1][minAvailableLabel]).n = 0

\* a minAvailable value that denotes a non-negative integer: digits after an
\* optional sign, no non-zero digit after a minus sign
IsNonNegativeInteger(s) ==
    LET body == IF s # <<>> /\ Head(s) \in {"-", "+"} THEN Tail(s) ELSE s
    IN  /\ body # <<>>
        /\ \A i \in 1 .. Len(body) : IsDigit(body[i])
        /\ (Head(s) = "-") => \A i \in 1 .. Len(body) : body[i] = "0"

\* C2: PreFilter returns Error whenever the minAvailable value is not a valid
\* non-negative integer (text, absent or empty, negative numeral)
C2_InvalidThresholdIsError ==
    (admit.code # Pending /\ ~IsNonNegativeInteger(AdmitLabel)) => admit.code = Error

\* C3: a failed listing makes PreFilter return Error; a failed node lookup makes
\* Score return Error and score 0 for that node, nothing computed, and the other
\* nodes are scored as usual
C3_QueryFailureIsError ==
    /\ (admit.code # Pending /\ admit.listErr) => admit.code = Error
    /\ \A n \in Nodes :
          (Called(n) /\ ~results[n].info.found) =>
              /\ results[n].code = Error
              /\ results[n].score = Zero64
              /\ results[n].headroom = Zero64
    /\ \A n \in Nodes : Found(n) => results[n].code # Error

\* one node's lookup failed and another node of the same pass has its score
C3_Witness ==
    \E n, k \in Nodes :
        /\ Called(n) /\ ~results[n].info.found /\ results[n].code = Error
        /\ Scored(k) /\ results[k].score # Zero64

\* C4: for a node that was found, with headroom h: Most mode returns h, whatever
\* its sign; Least mode with h > 0 returns the truncated quotient 100000000000 / h
\* (the q with q*h <= 100000000000 < q*h + h; 100000 for h = 1000000)
C4_ScoreOfHeadroom ==
    \A n \in Nodes : Found(n) =>
        LET h == Headroom(n)
            q == results[n].score
        IN  /\ scoreMode = mostMode => results[n].code = Success /\ q = h
            /\ (scoreMode = leastMode /\ Lt64(Zero64, h)) =>
                  /\ results[n].code = Success
                  /\ Le64(Zero64, q) /\ Le64(q, LeastDividend)
                  /\ ~LtU64(LeastDividend, Mul64(q, h))
                  /\ LtU64(LeastDividend, Add64(Mul64(q, h), h))
                  /\ h = I64(1000000) => q = I64(100000)

\* Least mode scored headroom 1000000 as 100000 beside a node of another headroom
C4_Witness ==
    /\ scoreMode = leastMode
    /\ \E n, k \in Nodes :
          /\ Scored(n) /\ Headroom(n) = I64(1000000) /\ results[n].score = I64(100000)
          /\ Scored(k) /\ Headroom(k) = I64(30) /\ results[k].score = Add64(Mul64(I64(33333), I64(100000)), I64(33333))

\* C5: after NormalizeScore every score lies in [MinNodeScore, MaxNodeScore]
C5_NormalizedInRange ==
    phase = "Normalized" => \A i \in 1 .. Len(scores) : InRange(scores[i].Score)

\* C6: after NormalizeScore of a list with two distinct raw scores, an entry
\* that held the least raw score holds MinNodeScore and one that held the
\* greatest holds MaxNodeScore
C6_ExtremesMapToBounds ==
    (phase = "Normalized" /\ ~Uniform(Raw)) =>
        \A i \in 1 .. Len(Raw) :
            /\ IsMin(Raw, i) => scores[i].Score = MinNodeScore
            /\ IsMax(Raw, i) => scores[i].Score = MaxNodeScore

\* C7: NormalizeScore keeps the entries' positions and names and their order:
\* raw_i <= raw_j implies normalized_i <= normalized_j
C7_OrderPreserved ==
    phase = "Normalized" =>
        /\ Len(scores) = Len(Raw)
        /\ \A i \in 1 .. Len(Raw) : scores[i].Name = Raw[i].Name
        /\ \A i, j \in 1 .. Len(Raw) :
              Le64(Raw[i].Score, Raw[j].Score) => Le64(scores[i].Score, scores[j].Score)

\* C8: between two scored nodes with headroom h1 <= h2, Most mode scores the
\* first no higher, and Least mode with 0 < h1 scores the first no lower
C8_ScoreMonotone ==
    \A n, k \in Nodes :
        (Scored(n) /\ Scored(k) /\ Le64(Headroom(n), Headroom(k))) =>
            /\ scoreMode = mostMode => Le64(results[n].score, results[k].score)
            /\ (scoreMode = leastMode /\ Lt64(Zero64, Headroom(n))) =>
                  Le64(results[k].score, results[n].score)

\* Most mode scored two nodes of different headroom, one of them negative
C8_Witness ==
    /\ scoreMode = mostMode
    /\ \E n, k \in Nodes :
          /\ Scored(n) /\ Scored(k)
          /\ Lt64(Headroom(n), Zero64) /\ Lt64(Zero64, Headroom(k))
          /\ Lt64(results[n].score, results[k].score)

\* C9: when every entry of a non-empty list holds the same raw score,
\* NormalizeScore sets every entry to MaxNodeScore and returns Success
C9_DegenerateToMax ==
    (phase = "Normalized" /\ Raw # <<>> /\ Uniform(Raw)) =>
        /\ normalized = Success
        /\ Len(scores) = Len(Raw)
        /\ \A i \in 1 .. Len(scores) : scores[i].Score = MaxNodeScore

\* every node scored 1000000, outside the output range, and holds MaxNodeScore
C9_Witness ==
    /\ phase = "Normalized"
    /\ Len(Raw) = NumNodes
    /\ \A i \in 1 .. Len(Raw) : Raw[i].Score = I64(1000000)
    /\ \A i \in 1 .. Len(scores) : scores[i].Score = MaxNodeScore

\* C10: in Least mode a node with headroom <= 0 gets a score and no panic, and
\* the score is not below any score a positive headroom gets
C10_LeastClampsNonPositive ==
    \A n \in Nodes :
        (scoreMode = leastMode /\ Found(n) /\ Le64(Headroom(n), Zero64)) =>
            /\ results[n].code = Success
            /\ Le64(LeastDividend, results[n].score)
====
